---------------------------- MODULE Spec2Model ----------------------------
(***************************************************************************)
(* Show radar: the heuristic scorer (scoring.py), the paging, the          *)
(* de-duplication and the multi-night collapsing of events                 *)
(* (fetch_events.py), and the AI refinement of the ranking (ai_filter.py). *)
(*                                                                         *)
(* Encoding.  Python's None is the empty tuple and a present value x is    *)
(* the one-element tuple <<x>>.  Texts are strings.  Weights are in        *)
(* hundredths (0.93 is 93) and scores and date bonuses in thousandths      *)
(* (0.5 is 500), so that 0.3 * (w - 0.75) is 3 * (w100 - 75) thousandths.  *)
(* Instants are integer ticks, TicksPerDay of them to a day.               *)
(***************************************************************************)
EXTENDS Integers, Sequences, FiniteSets, TLC

VARIABLES
  clock,      \* the wall clock, in ticks (what datetime.now() returns)
  ev,         \* the event the scorer is called on
  r1,         \* result of the first call of score_event on ev (None before)
  r2,         \* result of the second call of score_event (None before)
  ev2,        \* a second event, scored beside ev (None when there is none)
  events,     \* the list handed to _dedupe_events, _collapse_multi_night
              \* or refine_top_events_with_ai
  deduped,    \* what _dedupe_events returned: the list and, for the claims, the
              \* input positions it kept (None before the call)
  collapsed,  \* the list _collapse_multi_night returned (None before the call)
  response,   \* what the completion call of the AI filter will answer
  refined,    \* outcome of refine_top_events_with_ai (None before the call)
  fetch_pc,   \* _fetch_city_for_window: "idle" (not called), "loop" (in its
              \* loop), "returned" or "raised"
  all_events, \* its all_events, as the number of events gathered
  page,       \* its page
  requests,   \* the page requests it has made
  known_events,     \* the known-events state file: None while there is none,
                    \* else the set of known keys of each window
  final_by_window,  \* the final lists of the latest run, by window
  new_by_window,    \* the events the latest run reported as new, by window
  prev_known,       \* the known keys the latest run loaded, by window
  sheet,      \* the rows of the worksheet below the header row
  batch       \* the events handed to the latest upsert_events

scoreVars == <<clock, ev, r1, r2, ev2>>
listVars == <<events, deduped, collapsed>>
aiVars == <<response, refined>>
fetchVars == <<fetch_pc, all_events, page, requests>>

trackVars == <<known_events, final_by_window, new_by_window, prev_known>>
sheetVars == <<sheet, batch>>

vars == <<scoreVars, listVars, aiVars, fetchVars, trackVars, sheetVars>>

---------------------------------------------------------------------------
(* Optional values and Python truthiness                                   *)

None == <<>>
Some(x) == <<x>>
Val(o) == o[1]

\* truthiness of an optional text: None and "" are falsy
TruthyText(o) == o /= None /\ Val(o) /= ""

\* `a or b` on optional texts
OrText(a, b) == IF TruthyText(a) THEN a ELSE b

Max2(a, b) == IF a >= b THEN a ELSE b
Min2(a, b) == IF a <= b THEN a ELSE b

---------------------------------------------------------------------------
(* str.strip(), str.lower(), `sub in s`                                    *)

CharAt(s, i) == SubSeq(s, i, i)

UpperChars == "ABCDEFGHIJKLMNOPQRSTUVWXYZ"
LowerChars == "abcdefghijklmnopqrstuvwxyz"

\* the lower-case letter of each upper-case letter
LowerOf ==
  [c \in {CharAt(UpperChars, i) : i \in 1..Len(UpperChars)} |->
     CharAt(LowerChars, CHOOSE i \in 1..Len(UpperChars) : CharAt(UpperChars, i) = c)]

LowerChar(c) == IF c \in DOMAIN LowerOf THEN LowerOf[c] ELSE c

RECURSIVE Lower(_)
Lower(s) == IF s = "" THEN "" ELSE LowerChar(Head(s)) \o Lower(Tail(s))

RECURSIVE LStrip(_)
LStrip(s) == IF s /= "" /\ Head(s) = " " THEN LStrip(Tail(s)) ELSE s

RECURSIVE RStrip(_)
RStrip(s) ==
  IF s /= "" /\ CharAt(s, Len(s)) = " " THEN RStrip(SubSeq(s, 1, Len(s) - 1)) ELSE s

Strip(s) == RStrip(LStrip(s))

Contains(sub, s) ==
  \E i \in 1..(Len(s) - Len(sub) + 1) : SubSeq(s, i, i + Len(sub) - 1) = sub

---------------------------------------------------------------------------
(* scoring.py: venue tiers                                                 *)

VENUE_TIERS ==
  <<
    <<"chase center", 100>>,
    <<"oakland arena", 98>>,
    <<"sap center", 97>>,
    <<"sap center at san jose", 97>>,
    <<"levis stadium", 97>>,
    <<"levi's stadium", 97>>,
    <<"shoreline amphitheatre", 96>>,
    <<"greek theatre-uc berkeley", 96>>,
    <<"greek theatre", 96>>,
    <<"frost amphitheater", 94>>,
    <<"mountain winery", 93>>,
    <<"concord pavilion", 93>>,
    <<"toyota pavilion at concord", 93>>,
    <<"bill graham civic auditorium", 94>>,
    <<"san jose civic", 92>>,
    <<"san jose center for the performing arts", 91>>,
    <<"paramount theatre oakland", 91>>,
    <<"palace of fine arts", 90>>,
    <<"davies symphony hall", 90>>,
    <<"war memorial opera house", 90>>,
    <<"the fillmore", 93>>,
    <<"warfield", 93>>,
    <<"the warfield", 93>>,
    <<"fox theater - oakland", 93>>,
    <<"fox theatre - oakland", 93>>,
    <<"fox theater", 93>>,
    <<"the masonic", 92>>,
    <<"the regency ballroom", 91>>,
    <<"regency ballroom", 91>>,
    <<"uc theatre", 89>>,
    <<"the uc theatre", 89>>,
    <<"great american music hall", 89>>,
    <<"gamh", 89>>,
    <<"august hall", 88>>,
    <<"bimbo's 365 club", 88>>,
    <<"bimbos 365 club", 88>>,
    <<"bimbo's", 88>>,
    <<"the independent", 88>>,
    <<"independent", 88>>,
    <<"the chapel", 85>>,
    <<"the new parish", 84>>,
    <<"new parish", 84>>,
    <<"sweetwater music hall", 84>>,
    <<"sweetwater", 84>>,
    <<"cornerstone berkeley", 83>>,
    <<"cornerstone", 83>>,
    <<"bottom of the hill", 82>>,
    <<"rickshaw stop", 82>>,
    <<"cafe du nord", 81>>,
    <<"brick & mortar music hall", 80>>,
    <<"brick and mortar music hall", 80>>,
    <<"neck of the woods", 79>>,
    <<"the lost church - san francisco", 79>>,
    <<"the lost church", 79>>,
    <<"boom boom room", 78>>,
    <<"music city san francisco", 78>>,
    <<"the make-out room", 77>>,
    <<"make-out room", 77>>,
    <<"uptown theatre napa", 86>>,
    <<"blue note napa", 84>>
  >>

DEFAULT_VENUE_WEIGHT == 75

normalize_key(value) ==
  IF ~TruthyText(value) THEN "" ELSE Lower(Strip(Val(value)))

\* the weight of the first table entry, in insertion order, that occurs in key
RECURSIVE FirstVenueMatch(_, _)
FirstVenueMatch(key, i) ==
  IF i > Len(VENUE_TIERS) THEN DEFAULT_VENUE_WEIGHT
  ELSE IF Contains(VENUE_TIERS[i][1], key) THEN VENUE_TIERS[i][2]
  ELSE FirstVenueMatch(key, i + 1)

venue_weight(name) ==
  LET key == normalize_key(name)
  IN IF key = "" THEN DEFAULT_VENUE_WEIGHT ELSE FirstVenueMatch(key, 1)

---------------------------------------------------------------------------
(* scoring.py: genre fit                                                   *)

GENRE_HINTS ==
  <<
    <<"pop", 100>>,
    <<"rock", 100>>,
    <<"indie", 100>>,
    <<"alternative", 100>>,
    <<"alt", 100>>,
    <<"hip hop", 90>>,
    <<"hip-hop", 90>>,
    <<"rap", 90>>,
    <<"electronic", 85>>,
    <<"edm", 85>>,
    <<"reggae", 85>>,
    <<"country", 80>>,
    <<"latin", 80>>,
    <<"metal", 75>>,
    <<"comedy", 30>>
  >>

\* one classification: for each key the `name` of the dict under it, None
\* when the key is absent, its value is no dict, or the dict has no name
ClassKeys == <<"genre", "subGenre", "segment", "subType", "type">>

RECURSIVE KeyTexts(_, _)
KeyTexts(c, k) ==
  IF k > Len(ClassKeys) THEN <<>>
  ELSE LET name == c[ClassKeys[k]]
       IN (IF TruthyText(name) THEN <<Lower(Val(name))>> ELSE <<>>) \o KeyTexts(c, k + 1)

RECURSIVE ClassTexts(_, _)
ClassTexts(classes, i) ==
  IF i > Len(classes) THEN <<>>
  ELSE KeyTexts(classes[i], 1) \o ClassTexts(classes, i + 1)

\* a slip of HintBest: min where the code has max
RECURSIVE HintBestMin(_, _, _)
HintBestMin(text, j, best) ==
  IF j > Len(GENRE_HINTS) THEN best
  ELSE HintBestMin(text, j + 1,
                   IF Contains(GENRE_HINTS[j][1], text)
                     THEN Min2(best, GENRE_HINTS[j][2]) ELSE best)

\* lines 160-164: the hints matched against one text
RECURSIVE HintBest(_, _, _)
HintBest(text, j, best) ==
  IF j > Len(GENRE_HINTS) THEN best
  ELSE HintBest(text, j + 1,
                IF Contains(GENRE_HINTS[j][1], text)
                  THEN Max2(best, GENRE_HINTS[j][2]) ELSE best)

RECURSIVE TextBest(_, _, _)
TextBest(texts, i, best) ==
  IF i > Len(texts) THEN best
  ELSE TextBest(texts, i + 1, HintBest(texts[i], 1, best))

genre_fit(event) ==
  LET classes == IF event.classifications = None THEN <<>> ELSE Val(event.classifications)
      texts == ClassTexts(classes, 1)
  IN IF texts = <<>> THEN 80 ELSE TextBest(texts, 1, 70)

---------------------------------------------------------------------------
(* scoring.py: date proximity bonus                                        *)

TicksPerDay == 2

\* a slip of date_proximity_bonus: the days rounded toward zero
\* (int(total_seconds() / 86400)) where timedelta.days rounds down, so that
\* an event that began less than a day ago counts as zero days away
date_proximity_bonus_truncating(dt, now, wall) ==
  IF dt = None THEN [raised |-> FALSE, v |-> 0]
  ELSE
    LET n == IF now = None THEN [aware |-> TRUE, t |-> wall] ELSE Val(now)
        d == Val(dt)
        delta_days == IF d.t >= n.t THEN (d.t - n.t) \div TicksPerDay
                         ELSE -((n.t - d.t) \div TicksPerDay)
    IN IF d.aware /= n.aware THEN [raised |-> TRUE, v |-> 0]
       ELSE IF delta_days < 0 THEN [raised |-> FALSE, v |-> -200]
       ELSE IF delta_days <= 7 THEN [raised |-> FALSE, v |-> 100]
       ELSE IF delta_days <= 30 THEN [raised |-> FALSE, v |-> 80]
       ELSE IF delta_days <= 120 THEN [raised |-> FALSE, v |-> 50]
       ELSE IF delta_days <= 365 THEN [raised |-> FALSE, v |-> 20]
       ELSE [raised |-> FALSE, v |-> 0]

\* a slip of date_proximity_bonus: the bonuses of the first two tiers
\* exchanged, so that 8-30 days out earns more than 0-7
date_proximity_bonus_tiers_swapped(dt, now, wall) ==
  IF dt = None THEN [raised |-> FALSE, v |-> 0]
  ELSE
    LET n == IF now = None THEN [aware |-> TRUE, t |-> wall] ELSE Val(now)
        d == Val(dt)
        delta_days == (d.t - n.t) \div TicksPerDay
    IN IF d.aware /= n.aware THEN [raised |-> TRUE, v |-> 0]
       ELSE IF delta_days < 0 THEN [raised |-> FALSE, v |-> -200]
       ELSE IF delta_days <= 7 THEN [raised |-> FALSE, v |-> 80]
       ELSE IF delta_days <= 30 THEN [raised |-> FALSE, v |-> 100]
       ELSE IF delta_days <= 120 THEN [raised |-> FALSE, v |-> 50]
       ELSE IF delta_days <= 365 THEN [raised |-> FALSE, v |-> 20]
       ELSE [raised |-> FALSE, v |-> 0]

\* lines 173-194.
\* A datetime object is [aware |-> has a tzinfo, t |-> the instant in ticks]
\* dt and now are optional datetimes; wall is what datetime.now(utc) returns.
\* Subtracting an aware datetime from a naive one raises TypeError.
date_proximity_bonus(dt, now, wall) ==
  IF dt = None THEN [raised |-> FALSE, v |-> 0]
  ELSE
    LET n == IF now = None THEN [aware |-> TRUE, t |-> wall] ELSE Val(now)
        d == Val(dt)
        delta_days == (d.t - n.t) \div TicksPerDay
    IN IF d.aware /= n.aware THEN [raised |-> TRUE, v |-> 0]
       ELSE IF delta_days < 0 THEN [raised |-> FALSE, v |-> -200]
       ELSE IF delta_days <= 7 THEN [raised |-> FALSE, v |-> 100]
       ELSE IF delta_days <= 30 THEN [raised |-> FALSE, v |-> 80]
       ELSE IF delta_days <= 120 THEN [raised |-> FALSE, v |-> 50]
       ELSE IF delta_days <= 365 THEN [raised |-> FALSE, v |-> 20]
       ELSE [raised |-> FALSE, v |-> 0]

---------------------------------------------------------------------------
(* scoring.py: score_event                                                 *)

\* A date field holds None, a datetime, or a string:
\*   [k |-> "none"]
\*   [k |-> "datetime", aware, t]
\*   [k |-> "str", ok, suffix, t]   ok: datetime.fromisoformat accepts the
\*       text once "Z" is replaced by "+00:00"; suffix: "Z", "+00:00" or ""
\*       (no offset); the empty string is [k |-> "str", ok |-> FALSE,
\*       suffix |-> "empty", t |-> 0]
NoDate == [k |-> "none", ok |-> FALSE, suffix |-> "", aware |-> FALSE, t |-> 0]
DateTimeOf(aware, t) == [k |-> "datetime", ok |-> TRUE, suffix |-> "", aware |-> aware, t |-> t]
DateStr(ok, suffix, t) == [k |-> "str", ok |-> ok, suffix |-> suffix, aware |-> FALSE, t |-> t]

TruthyDate(d) == d.k = "datetime" \/ (d.k = "str" /\ d.suffix /= "empty")

\* datetime.fromisoformat(s.replace("Z", "+00:00")), None on an exception
ParseIso(d) ==
  IF d.ok THEN Some([aware |-> d.suffix /= "", t |-> d.t]) ELSE None

Clamp01(x) == Max2(0, Min2(1000, x))

\* the venue name read from event["_embedded"]: [raised, v]
EmbeddedVenueName(event) ==
  IF event.embedded = None THEN [raised |-> FALSE, v |-> None]
  ELSE LET venues == Val(event.embedded).venues
       IN IF venues = None THEN [raised |-> FALSE, v |-> None]       \* default [{}]
          ELSE IF Val(venues) = <<>> THEN [raised |-> TRUE, v |-> None]  \* [][0]
          ELSE [raised |-> FALSE, v |-> Val(venues)[1]]

Raised == [raised |-> TRUE, score |-> 0,
           components |-> [venue_weight |-> 0, genre_fit |-> 0, date_bonus |-> 0, base |-> 0]]

\* a slip of combine: the components summed as they are, weights unscaled and
\* un-centred, and the result returned without the clamp
combine_unclamped(v_weight, g_weight, d_bonus) ==
  500 + 10 * v_weight + 10 * g_weight + d_bonus

\* lines 236-243: base, venue and genre swings, date bonus, clamp
combine(v_weight, g_weight, d_bonus) ==
  Clamp01(500 + 3 * (v_weight - 75) + 3 * (g_weight - 80) + d_bonus)

score_event(event, wall) ==
  LET emb == IF TruthyText(event.venue_name)
               THEN [raised |-> FALSE, v |-> event.venue_name]
               ELSE EmbeddedVenueName(event)
      v_weight == venue_weight(emb.v)
      g_weight == genre_fit(event)
      raw == IF TruthyDate(event.start_datetime) THEN event.start_datetime ELSE event.date
      dt == IF raw.k = "str" THEN ParseIso(raw)
            ELSE IF raw.k = "datetime" THEN Some([aware |-> raw.aware, t |-> raw.t])
            ELSE None
      d_bonus == date_proximity_bonus(dt, None, wall)
  IN IF emb.raised \/ d_bonus.raised THEN Raised
     ELSE [raised |-> FALSE,
           score |-> combine(v_weight, g_weight, d_bonus.v),
           components |-> [venue_weight |-> v_weight, genre_fit |-> g_weight,
                           date_bonus |-> d_bonus.v, base |-> 500]]

---------------------------------------------------------------------------
(* The scorer's inputs and calls                                           *)

MaxClock == 3

VenueNames == {None, Some(""), Some("  The FILLMORE "), Some("Joe's Bar")}

\* event["_embedded"]: None, or a dict whose "venues" is absent (None), an
\* empty list, or a list of venues, each given by its optional name
Embeddeds ==
  {None, Some([venues |-> Some(<<>>)]), Some([venues |-> Some(<<Some("Chase Center")>>)])}

Cls(genre, segment) ==
  [genre |-> genre, subGenre |-> None, segment |-> segment, subType |-> None, type |-> None]

ClassLists ==
  {None,
   Some(<<Cls(Some("Rock"), Some("Music"))>>),
   Some(<<Cls(Some("Comedy"), Some("Arts & Theatre"))>>),
   Some(<<Cls(Some("Jazz"), Some("Music")), Cls(Some("Hip-Hop/Rap"), None)>>)}

\* days from clock 0 to the event's start
EventDays == {-1, 0, 1, 8, 31, 121, 366}

StartDates ==
  {NoDate}
  \cup {DateTimeOf(TRUE, d * TicksPerDay) : d \in EventDays}
  \cup {DateTimeOf(FALSE, 8 * TicksPerDay)}
  \cup {DateStr(TRUE, "Z", 8 * TicksPerDay),
        DateStr(TRUE, "+00:00", 31 * TicksPerDay),
        DateStr(TRUE, "", 8 * TicksPerDay),
        DateStr(FALSE, "", 0),
        DateStr(FALSE, "empty", 0)}

ScoreEvents ==
  [venue_name : VenueNames, embedded : Embeddeds, classifications : ClassLists,
   start_datetime : StartDates, date : {NoDate, DateTimeOf(TRUE, 31 * TicksPerDay)}]

\* the parts of the state a specification leaves idle
IdleLists == events = <<>> /\ deduped = None /\ collapsed = None
IdleAI == response = None /\ refined = None
IdleFetch == fetch_pc = "idle" /\ all_events = 0 /\ page = 0 /\ requests = 0
IdleScore == clock = 0 /\ ev = None /\ r1 = None /\ r2 = None /\ ev2 = None
IdleTrack ==
  /\ known_events = None /\ final_by_window = None
  /\ new_by_window = None /\ prev_known = None
IdleSheet == sheet = <<>> /\ batch = <<>>

InitScore ==
  /\ clock = 0
  /\ ev \in ScoreEvents
  /\ r1 = None
  /\ r2 = None
  /\ ev2 = None
  /\ IdleLists /\ IdleAI /\ IdleFetch /\ IdleTrack /\ IdleSheet

\* time passes between (and before) the calls
Tick ==
  /\ clock < MaxClock
  /\ clock' = clock + 1
  /\ UNCHANGED <<ev, r1, r2, ev2, listVars, aiVars, fetchVars, trackVars, sheetVars>>

FirstCall ==
  /\ r1 = None
  /\ r1' = Some(score_event(ev, clock))
  /\ UNCHANGED <<clock, ev, r2, ev2, listVars, aiVars, fetchVars, trackVars, sheetVars>>

SecondCall ==
  /\ r1 /= None
  /\ r2 = None
  /\ r2' = Some(score_event(ev, clock))
  /\ UNCHANGED <<clock, ev, r1, ev2, listVars, aiVars, fetchVars, trackVars, sheetVars>>

NextScore == Tick \/ FirstCall \/ SecondCall

SpecScore == InitScore /\ [][NextScore]_vars

---------------------------------------------------------------------------
(* fetch_events.py: _collapse_multi_night                                  *)
(*                                                                         *)
(* An event is a record of optional fields: id, primary_artist, name,      *)
(* venue_name, window (texts), start_datetime (an instant), ai_priority    *)
(* and score (numbers).  A collapsed record adds multi_night, night_count, *)
(* ids, date_start and date_end; its field src is bookkeeping of this      *)
(* module only: the positions in the input of the events the record was    *)
(* built from, in the order of sorted_items.                               *)

\* datetime.max: the sort key of an event without start_datetime
DatetimeMax == 9999

\* a slip of GroupKey: the venue left out of the key
GroupKeyNoVenue(e) ==
  <<Lower(Strip(Val(OrText(OrText(e.primary_artist, e.name), Some(""))))),
    "",
    Val(OrText(e.window, Some("")))>>

\* lines 311-314
GroupKey(e) ==
  <<Lower(Strip(Val(OrText(OrText(e.primary_artist, e.name), Some(""))))),
    Lower(Strip(Val(OrText(e.venue_name, Some(""))))),
    Val(OrText(e.window, Some("")))>>

\* lines 308-315: the groups, in the order in which their keys first occur,
\* each with the positions of its events in input order
RECURSIVE GroupInto(_, _, _)
GroupInto(keys, i, groups) ==
  IF i > Len(keys) THEN groups
  ELSE IF \E j \in 1..Len(groups) : groups[j].key = keys[i]
    THEN GroupInto(keys, i + 1,
           [j \in 1..Len(groups) |->
              IF groups[j].key = keys[i]
                THEN [groups[j] EXCEPT !.items = Append(@, i)]
                ELSE groups[j]])
    ELSE GroupInto(keys, i + 1, Append(groups, [key |-> keys[i], items |-> <<i>>]))

\* a slip of Groups: only neighbours of equal key are grouped (groupby on
\* a list that was not sorted by key)
GroupsOfNeighbours(evs) ==
  LET keys == [i \in 1..Len(evs) |-> GroupKey(evs[i])]
      starts == {i \in 1..Len(evs) : i = 1 \/ keys[i] /= keys[i - 1]}
      nth(g) == CHOOSE i \in starts : Cardinality({j \in starts : j < i}) = g - 1
      last(g) == IF g = Cardinality(starts) THEN Len(evs) ELSE nth(g + 1) - 1
  IN [g \in 1..Cardinality(starts) |->
        [key |-> keys[nth(g)],
         items |-> [k \in 1..(last(g) - nth(g) + 1) |-> nth(g) + k - 1]]]

Groups(evs) == GroupInto([i \in 1..Len(evs) |-> GroupKey(evs[i])], 1, <<>>)

\* a slip of StartKey: a missing start_datetime sorts first (datetime.min)
StartKeyMissingFirst(e) == IF e.start_datetime = None THEN 0 ELSE Val(e.start_datetime)

\* line 333: the sort key of sorted_items
StartKey(e) == IF e.start_datetime = None THEN DatetimeMax ELSE Val(e.start_datetime)

\* sorted() is stable: a position goes behind every one whose key is not larger
InsertByStart(evs, sorted, i) ==
  LET before == {p \in 1..Len(sorted) : StartKey(evs[sorted[p]]) <= StartKey(evs[i])}
      n == IF before = {} THEN 0
           ELSE CHOOSE p \in before : \A q \in before : q <= p
  IN SubSeq(sorted, 1, n) \o <<i>> \o SubSeq(sorted, n + 1, Len(sorted))

RECURSIVE SortByStartFrom(_, _, _, _)
SortByStartFrom(evs, items, k, sorted) ==
  IF k > Len(items) THEN sorted
  ELSE SortByStartFrom(evs, items, k + 1, InsertByStart(evs, sorted, items[k]))

\* a slip of SortByStart: the group left in input order
SortByStartOmitted(evs, items) == items

\* lines 331-334
SortByStart(evs, items) == SortByStartFrom(evs, items, 1, <<>>)

SetMin(S) == CHOOSE x \in S : \A y \in S : x <= y
SetMax(S) == CHOOSE x \in S : \A y \in S : x >= y

\* line 351: the truthy ids of sorted_items, in their order
RECURSIVE MemberIds(_, _, _)
MemberIds(evs, sorted, k) ==
  IF k > Len(sorted) THEN <<>>
  ELSE (IF TruthyText(evs[sorted[k]].id) THEN <<evs[sorted[k]].id>> ELSE <<>>)
       \o MemberIds(evs, sorted, k + 1)

\* a slip of GroupPriority: the representative keeps its own priority
GroupPriorityOfFirst(evs, sorted) == evs[sorted[1]].ai_priority

\* lines 356-358: the group's priority
GroupPriority(evs, sorted) ==
  LET priorities == {Val(evs[i].ai_priority) :
                       i \in {j \in {sorted[k] : k \in 1..Len(sorted)} : evs[j].ai_priority /= None}}
  IN IF priorities /= {} THEN Some(SetMax(priorities)) ELSE evs[sorted[1]].ai_priority

Collapsed(e, multi_night, night_count, ids, date_start, date_end, ai_priority, src) ==
  [id |-> e.id, primary_artist |-> e.primary_artist, name |-> e.name,
   venue_name |-> e.venue_name, window |-> e.window,
   start_datetime |-> e.start_datetime, score |-> e.score,
   ai_priority |-> ai_priority,
   multi_night |-> multi_night, night_count |-> night_count, ids |-> ids,
   date_start |-> date_start, date_end |-> date_end, src |-> src]

\* lines 320-328: a group of one
CollapseSingle(evs, items) ==
  LET e == evs[items[1]]
  IN Collapsed(e, FALSE, 1, <<e.id>>, e.start_datetime, e.start_datetime,
               e.ai_priority, items)

\* lines 337-341: the start times of the members that have one
Dates(evs, sorted) ==
  {Val(evs[i].start_datetime) :
     i \in {j \in {sorted[k] : k \in 1..Len(sorted)} : evs[j].start_datetime /= None}}

\* lines 342-347
DateStart(evs, sorted) ==
  IF Dates(evs, sorted) /= {} THEN Some(SetMin(Dates(evs, sorted)))
  ELSE evs[sorted[1]].start_datetime

\* a slip of DateEnd: the start time of the last of sorted_items
DateEndOfLast(evs, sorted) == evs[sorted[Len(sorted)]].start_datetime

\* lines 342-347
DateEnd(evs, sorted) ==
  IF Dates(evs, sorted) /= {} THEN Some(SetMax(Dates(evs, sorted)))
  ELSE evs[sorted[1]].start_datetime

\* a slip of NightCount: the length of the id list
NightCountOfIds(evs, sorted) == Len(MemberIds(evs, sorted, 1))

\* line 350
NightCount(evs, sorted) == Len(sorted)

\* lines 330-360: a multi-night run
CollapseRun(evs, items) ==
  LET sorted_items == SortByStart(evs, items)
  IN Collapsed(evs[sorted_items[1]], TRUE, NightCount(evs, sorted_items),
               MemberIds(evs, sorted_items, 1),
               DateStart(evs, sorted_items), DateEnd(evs, sorted_items),
               GroupPriority(evs, sorted_items), sorted_items)

\* lines 319-360
CollapseGroup(evs, items) ==
  IF Len(items) = 1 THEN CollapseSingle(evs, items) ELSE CollapseRun(evs, items)

\* lines 363-367: `ai_priority or 0`, `score or 0.0`
NumOrZero(o) == IF o = None THEN 0 ELSE Val(o)

\* a slip of sort_key: the priority left out
sort_key_score_only(rec) == <<0, NumOrZero(rec.score)>>

sort_key(rec) == <<NumOrZero(rec.ai_priority), NumOrZero(rec.score)>>

\* tuple comparison a >= b
KeyGeq(a, b) == a[1] > b[1] \/ (a[1] = b[1] /\ a[2] >= b[2])

\* a slip of InsertByKeyDesc: an ascending sort read backwards
\* (sorted(...)[::-1]), which puts a record before the ones of equal key
InsertByKeyDescReversed(sorted, rec) ==
  LET before == {p \in 1..Len(sorted) :
                   KeyGeq(sort_key(sorted[p]), sort_key(rec))
                   /\ sort_key(sorted[p]) /= sort_key(rec)}
      n == IF before = {} THEN 0
           ELSE CHOOSE p \in before : \A q \in before : q <= p
  IN SubSeq(sorted, 1, n) \o <<rec>> \o SubSeq(sorted, n + 1, Len(sorted))

\* list.sort(reverse=True) is stable: a record goes behind every one whose
\* key is not smaller
InsertByKeyDesc(sorted, rec) ==
  LET before == {p \in 1..Len(sorted) : KeyGeq(sort_key(sorted[p]), sort_key(rec))}
      n == IF before = {} THEN 0
           ELSE CHOOSE p \in before : \A q \in before : q <= p
  IN SubSeq(sorted, 1, n) \o <<rec>> \o SubSeq(sorted, n + 1, Len(sorted))

RECURSIVE SortCollapsedFrom(_, _, _)
SortCollapsedFrom(recs, k, sorted) ==
  IF k > Len(recs) THEN sorted
  ELSE SortCollapsedFrom(recs, k + 1, InsertByKeyDesc(sorted, recs[k]))

\* line 369
SortCollapsed(recs) == SortCollapsedFrom(recs, 1, <<>>)

\* lines 291-370
collapse_multi_night(evs) ==
  IF evs = <<>> THEN <<>>
  ELSE LET groups == Groups(evs)
       IN SortCollapsed([g \in 1..Len(groups) |-> CollapseGroup(evs, groups[g].items)])

---------------------------------------------------------------------------
(* Inputs of _collapse_multi_night and its call                            *)

MaxEvents == 3

Ev(id, primary_artist, name, venue_name, window, start_datetime, ai_priority, score) ==
  [id |-> id, primary_artist |-> primary_artist, name |-> name,
   venue_name |-> venue_name, window |-> window,
   start_datetime |-> start_datetime, ai_priority |-> ai_priority, score |-> score]

\* the keys of WINDOW_DEFS
Windows == {"short_term", "far_out"}

\* events that differ in the texts of the grouping key only
ArtistNames ==
  {[pa |-> Some("Cure "), nm |-> Some("Beck")],
   [pa |-> None, nm |-> Some(" cure")],
   [pa |-> Some("Beck"), nm |-> Some("cure")]}

KeyVenues == {Some("Fox "), Some("fox"), None}

KeyEvents ==
  {Ev(Some("x"), a.pa, a.nm, v, Some(w), Some(1), None, Some(500)) :
     a \in ArtistNames, v \in KeyVenues, w \in Windows}

\* events of two artists at one venue that differ in id and start time
NightEvents ==
  {Ev(id, Some(a), Some(a), Some("Fox"), Some("short_term"), ts, None, Some(500)) :
     id \in {Some(""), Some("x"), Some("y")},
     a \in {"Cure", "Beck"},
     ts \in {None, Some(1), Some(2)}}

\* events of three artists at one venue that differ in priority and score
RankEvents ==
  {Ev(Some("x"), Some(a), Some(a), Some("Fox"), Some("short_term"), Some(1), p, Some(s)) :
     a \in {"Cure", "Beck", "Low"},
     p \in {None, Some(5), Some(8)},
     s \in {300, 600, 900}}

Lists(D) == UNION {[1..n -> D] : n \in 0..MaxEvents}

InitCollapse(D) ==
  /\ IdleScore /\ IdleAI /\ IdleFetch /\ IdleTrack /\ IdleSheet
  /\ events \in Lists(D)
  /\ deduped = None
  /\ collapsed = None

CollapseCall ==
  /\ collapsed = None
  /\ collapsed' = Some(collapse_multi_night(events))
  /\ UNCHANGED <<scoreVars, events, deduped, aiVars, fetchVars, trackVars, sheetVars>>

SpecKeys == InitCollapse(KeyEvents) /\ [][CollapseCall]_vars

SpecNights == InitCollapse(NightEvents) /\ [][CollapseCall]_vars

SpecRank == InitCollapse(RankEvents) /\ [][CollapseCall]_vars

---------------------------------------------------------------------------
(* fetch_events.py: _dedupe_events, and the collapse of what it returns    *)

\* a slip of Better: >= where the code has >, so that the last of several
\* records with the top score is kept
BetterOrEqual(evs, i, j) == Val(evs[i].score) >= Val(evs[j].score)

\* line 286: ev.score > existing.score
Better(evs, i, j) == Val(evs[i].score) > Val(evs[j].score)

\* lines 282-287, one turn of the loop: best is best_by_id as the sequence of
\* the input positions of its values, in the insertion order of their keys
DedupeStep(evs, best, i) ==
  IF ~TruthyText(evs[i].id) THEN best
  ELSE LET at == {p \in 1..Len(best) : evs[best[p]].id = evs[i].id}
       IN IF at = {} THEN Append(best, i)
          ELSE LET p == CHOOSE q \in at : TRUE
               IN IF Better(evs, i, best[p]) THEN [best EXCEPT ![p] = i] ELSE best

RECURSIVE DedupeFrom(_, _, _)
DedupeFrom(evs, best, i) ==
  IF i > Len(evs) THEN best
  ELSE DedupeFrom(evs, DedupeStep(evs, best, i), i + 1)

\* lines 277-288: [kept |-> the input positions kept, v |-> the list returned]
dedupe_events(evs) ==
  LET best == DedupeFrom(evs, <<>>, 1)
  IN [kept |-> best, v |-> [p \in 1..Len(best) |-> evs[best[p]]]]

\* events of one artist at one venue that differ in id, score and start time
DedupeEvents ==
  {Ev(id, Some("Cure"), Some("Cure"), Some("Fox"), Some("short_term"), Some(ts), None, Some(s)) :
     id \in {Some(""), Some("x"), Some("y")},
     s \in {300, 600, 900},
     ts \in {1, 2}}

DedupeCall ==
  /\ deduped = None
  /\ deduped' = Some(dedupe_events(events))
  /\ UNCHANGED <<scoreVars, events, collapsed, aiVars, fetchVars, trackVars, sheetVars>>

\* _collapse_multi_night on the list _dedupe_events returned
CollapseDeduped ==
  /\ deduped /= None
  /\ collapsed = None
  /\ collapsed' = Some(collapse_multi_night(Val(deduped).v))
  /\ UNCHANGED <<scoreVars, events, deduped, aiVars, fetchVars, trackVars, sheetVars>>

NextDedupe == DedupeCall \/ CollapseDeduped

SpecDedupe == InitCollapse(DedupeEvents) /\ [][NextDedupe]_vars

---------------------------------------------------------------------------
(* ai_filter.py: refine_top_events_with_ai                                 *)

\* What the environment answers to a call:
\*   [k |-> "no_key"]          OPENAI_API_KEY is not set
\*   [k |-> "call_fails"]      chat.completions.create raises
\*   [k |-> "not_json"]        the content is not JSON
\*   [k |-> "not_object"]      the content is JSON but not an object
\*   [k |-> "items_not_list"]  the object's "items" is not a list
\*   [k |-> "items", items]    the object's "items" is the list items
\* An element of items is [obj, id, keep, priority]: obj tells whether it is
\* a JSON object; priority is [k |-> "absent"], [k |-> "num", v] or
\* [k |-> "text"] (a string that is no number).
Answer(k, items) == [k |-> k, items |-> items]

Priority(k, v) == [k |-> k, v |-> v]

Item(obj, id, keep, priority) == [obj |-> obj, id |-> id, keep |-> keep, priority |-> priority]

NotAnObject == Item(FALSE, None, FALSE, Priority("absent", 0))

\* events[:top_k]
Take(evs, k) == SubSeq(evs, 1, Min2(k, Len(evs)))

\* lines 130-139: decisions as the sequence of the entries written, the last
\* entry of an id being the one the dict holds; item.get on an element that
\* is no object and float() of a text raise
RECURSIVE Decisions(_, _, _)
Decisions(items, i, written) ==
  IF i > Len(items) THEN [raised |-> FALSE, v |-> written]
  ELSE LET item == items[i]
       IN IF ~item.obj THEN [raised |-> TRUE, v |-> <<>>]
          ELSE IF ~TruthyText(item.id) THEN Decisions(items, i + 1, written)
          ELSE IF item.priority.k = "text" THEN [raised |-> TRUE, v |-> <<>>]
          ELSE Decisions(items, i + 1,
                         Append(written,
                                [id |-> item.id, keep |-> item.keep,
                                 priority |-> IF item.priority.k = "num"
                                                THEN item.priority.v ELSE 0]))

\* decisions.get(id): None, or the entry of id
Decision(written, id) ==
  LET at == {p \in 1..Len(written) : written[p].id = id}
  IN IF at = {} THEN None ELSE Some(written[SetMax(at)])

\* lines 142-150
RECURSIVE Kept(_, _, _)
Kept(evs, written, i) ==
  IF i > Len(evs) THEN <<>>
  ELSE LET d == Decision(written, evs[i].id)
       IN (IF d = None \/ ~Val(d).keep THEN <<>>
           ELSE <<[evs[i] EXCEPT !.ai_priority = Some(Val(d).priority)]>>)
          \o Kept(evs, written, i + 1)

\* lines 153-157: sorted(kept, key=(ai_priority, score), reverse=True)
SortKept(kept) == SortCollapsedFrom(kept, 1, <<>>)

\* lines 19-168: [raised, v |-> the list returned]
refine_top_events_with_ai(evs, answer, top_k) ==
  IF answer.k /= "items" THEN [raised |-> FALSE, v |-> Take(evs, top_k)]
  ELSE LET d == Decisions(answer.items, 1, <<>>)
       IN IF d.raised THEN [raised |-> TRUE, v |-> <<>>]
          ELSE LET kept == Take(SortKept(Kept(evs, d.v, 1)), top_k)
               IN [raised |-> FALSE,
                   v |-> IF kept = <<>> THEN Take(evs, top_k) ELSE kept]

\* top_k of the calls, and the longest list of items answered
TopK == 2
MaxItems == 2

\* scored events of one window, before the AI gives them a priority
RefineEvents ==
  {Ev(Some(id), Some(id), Some(id), Some("Fox"), Some("short_term"), Some(1), None, Some(s)) :
     id \in {"x", "y"}, s \in {300, 900}}

Items ==
  {NotAnObject}
  \cup {Item(TRUE, id, keep, pr) :
          id \in {Some(""), Some("x"), Some("y")},
          keep \in BOOLEAN,
          pr \in {Priority("absent", 0), Priority("num", 5), Priority("num", 8),
                  Priority("text", 0)}}

Answers ==
  {Answer(k, <<>>) : k \in {"no_key", "call_fails", "not_json", "not_object", "items_not_list"}}
  \cup {Answer("items", items) : items \in UNION {[1..n -> Items] : n \in 0..MaxItems}}

InitRefine ==
  /\ IdleScore /\ IdleFetch /\ IdleTrack /\ IdleSheet
  /\ events \in Lists(RefineEvents)
  /\ deduped = None
  /\ collapsed = None
  /\ response \in {Some(a) : a \in Answers}
  /\ refined = None

RefineCall ==
  /\ refined = None
  /\ refined' = Some(refine_top_events_with_ai(events, Val(response), TopK))
  /\ UNCHANGED <<scoreVars, listVars, response, fetchVars, trackVars, sheetVars>>

SpecRefine == InitRefine /\ [][RefineCall]_vars

---------------------------------------------------------------------------
(* fetch_events.py: _fetch_city_for_window                                 *)

\* the default of max_events, which main passes too, and the "size" asked
\* of the API
max_events == 200
PageSize == 100

\* the events a page may hold, and the totalPages it may state
PageCounts == {0, 1, PageSize - 1, PageSize}
TotalPages == {None, Some(1), Some(3)}

InitFetch ==
  /\ IdleScore /\ IdleLists /\ IdleAI /\ IdleTrack /\ IdleSheet
  /\ fetch_pc = "loop"
  /\ all_events = 0
  /\ page = 0
  /\ requests = 0

\* a slip of FetchPage: the limit tested with > where the code has >=, so
\* that a total of exactly max_events does not stop the paging
FetchPageStrictLimit(n, total_pages) ==
  /\ fetch_pc = "loop"
  /\ requests' = requests + 1
  /\ IF n = 0
       THEN /\ fetch_pc' = "returned"
            /\ UNCHANGED <<all_events, page>>
       ELSE /\ all_events' = all_events + n
            /\ IF all_events + n > max_events
                 THEN fetch_pc' = "returned" /\ page' = page
                 ELSE IF total_pages /= None /\ page >= Val(total_pages) - 1
                 THEN fetch_pc' = "returned" /\ page' = page
                 ELSE fetch_pc' = "loop" /\ page' = page + 1
  /\ UNCHANGED <<scoreVars, listVars, aiVars, trackVars, sheetVars>>

\* lines 235-271, one turn of the loop: the request returns a page of n
\* events whose metadata states total_pages
FetchPage(n, total_pages) ==
  /\ fetch_pc = "loop"
  /\ requests' = requests + 1
  /\ IF n = 0
       THEN /\ fetch_pc' = "returned"
            /\ UNCHANGED <<all_events, page>>
       ELSE /\ all_events' = all_events + n
            /\ IF all_events + n >= max_events
                 THEN fetch_pc' = "returned" /\ page' = page
                 ELSE IF total_pages /= None /\ page >= Val(total_pages) - 1
                 THEN fetch_pc' = "returned" /\ page' = page
                 ELSE fetch_pc' = "loop" /\ page' = page + 1
  /\ UNCHANGED <<scoreVars, listVars, aiVars, trackVars, sheetVars>>

\* line 249 (_tm_get_with_cache, lines 138-139): the request raises
\* (raise_for_status, a timeout) and the exception leaves
\* _fetch_city_for_window
FetchRaises ==
  /\ fetch_pc = "loop"
  /\ requests' = requests + 1
  /\ fetch_pc' = "raised"
  /\ UNCHANGED <<all_events, page, scoreVars, listVars, aiVars, trackVars, sheetVars>>

NextFetch ==
  \/ \E n \in PageCounts, total_pages \in TotalPages : FetchPage(n, total_pages)
  \/ FetchRaises

SpecFetch == InitFetch /\ [][NextFetch]_vars

\* The loop is sequential code: once a request has returned (or raised) the
\* rest of the turn runs, and the next request is made at once.
SpecFetchLive == InitFetch /\ [][NextFetch]_vars /\ WF_vars(NextFetch)

---------------------------------------------------------------------------
(* Two events scored at one instant                                        *)

\* the scorer's view of an event main built: main adds the window to the
\* dict it hands to score_event (fetch_events.py lines 715-736)
Scored(venue_name, embedded, classifications, start_datetime, window) ==
  [venue_name |-> venue_name, embedded |-> embedded,
   classifications |-> classifications, start_datetime |-> start_datetime,
   date |-> NoDate, window |-> window]

AwareDates == {DateTimeOf(TRUE, d * TicksPerDay) : d \in EventDays}

\* pairs that differ in the start time only
DatePairs ==
  {<<Scored(v, e, c, d1, "short_term"), Scored(v, e, c, d2, "short_term")>> :
     v \in VenueNames, e \in Embeddeds, c \in ClassLists,
     d1 \in AwareDates, d2 \in AwareDates}

InitPair(Pairs) ==
  /\ clock \in 0..MaxClock
  /\ \E pr \in Pairs : ev = pr[1] /\ ev2 = Some(pr[2])
  /\ r1 = None
  /\ r2 = None
  /\ IdleLists /\ IdleAI /\ IdleFetch /\ IdleTrack /\ IdleSheet

\* score_event on the second event
OtherCall ==
  /\ r1 /= None
  /\ r2 = None
  /\ ev2 /= None
  /\ r2' = Some(score_event(Val(ev2), clock))
  /\ UNCHANGED <<clock, ev, r1, ev2, listVars, aiVars, fetchVars, trackVars, sheetVars>>

NextPair == FirstCall \/ OtherCall

SpecDates == InitPair(DatePairs) /\ [][NextPair]_vars

\* the genres the radar prefers, as Ticketmaster names them
PreferredGenres == {"Rock", "Pop", "Indie", "Alternative", "Electronic", "Hip-Hop"}

\* start times of the venue pairs: none, last week's, next week's
VenueDates == {NoDate, DateTimeOf(TRUE, -1 * TicksPerDay), DateTimeOf(TRUE, 8 * TicksPerDay)}

\* an event at a venue of VENUE_TIERS with a preferred genre, beside the
\* same event without venue and classifications
VenuePairs ==
  {<<Scored(Some(VENUE_TIERS[i][1]), None,
            Some(<<Cls(Some(g), Some("Music"))>>), d, "short_term"),
     Scored(None, None, None, d, "short_term")>> :
     i \in 1..Len(VENUE_TIERS), g \in PreferredGenres, d \in VenueDates}

SpecVenues == InitPair(VenuePairs) /\ [][NextPair]_vars

\* days from clock 0 to the start, on both sides of every tier's edge
WindowDays == {-1, 0, 7, 8, 30, 31, 90, 91, 120, 121, 365, 366}

\* pairs that differ in start time and window
WindowPairs ==
  {<<Scored(None, None, None, DateTimeOf(TRUE, d1 * TicksPerDay), w1),
     Scored(None, None, None, DateTimeOf(TRUE, d2 * TicksPerDay), w2)>> :
     d1 \in WindowDays, d2 \in WindowDays, w1 \in Windows, w2 \in Windows}

SpecWindows == InitPair(WindowPairs) /\ [][NextPair]_vars

---------------------------------------------------------------------------
(* Claims about the scorer                                                 *)

Results == {Val(r) : r \in {x \in {r1, r2} : x /= None}}

AllAbsent(e) ==
  /\ e.venue_name = None
  /\ e.embedded = None
  /\ e.classifications = None
  /\ e.start_datetime = NoDate
  /\ e.date = NoDate

\* C1: every score that score_event returns lies in [0, 1] (0..1000
\* thousandths), whatever the event, an event with venue, classifications
\* and date all absent included.
C1_ScoreInUnitInterval ==
  \A r \in Results : ~r.raised => (0 <= r.score /\ r.score <= 1000)

\* C1 witness: score_event has returned for the event with every optional
\* field absent (the neutral score 0.5).
C1_Witness ==
  /\ AllAbsent(ev)
  /\ r1 /= None
  /\ ~Val(r1).raised
  /\ Val(r1).score = 500

\* C2: two calls of score_event on the same event return the same score and
\* components, whenever each call is made.
C2_Deterministic ==
  (r1 /= None /\ r2 /= None) => r1 = r2

---------------------------------------------------------------------------
(* Claims about _collapse_multi_night                                      *)

Done == collapsed /= None
Out == Val(collapsed)
Recs == {Out[k] : k \in 1..Len(Out)}
Inputs == 1..Len(events)

\* the input positions a record was built from
Members(rec) == {rec.src[k] : k \in 1..Len(rec.src)}

\* the grouping key stated on its own: lower-cased, trimmed artist-or-name
\* and venue name, and the window
ArtistOrName(e) ==
  IF TruthyText(e.primary_artist) THEN Val(e.primary_artist)
  ELSE IF TruthyText(e.name) THEN Val(e.name) ELSE ""
VenueText(e) == IF TruthyText(e.venue_name) THEN Val(e.venue_name) ELSE ""
WindowText(e) == IF TruthyText(e.window) THEN Val(e.window) ELSE ""
SameShow(a, b) ==
  /\ Lower(Strip(ArtistOrName(a))) = Lower(Strip(ArtistOrName(b)))
  /\ Lower(Strip(VenueText(a))) = Lower(Strip(VenueText(b)))
  /\ WindowText(a) = WindowText(b)

\* alphabetical order of texts of lower-case letters
CharRank(c) == CHOOSE i \in 1..Len(LowerChars) : CharAt(LowerChars, i) = c
RECURSIVE TextLeq(_, _)
TextLeq(a, b) ==
  IF a = "" THEN TRUE
  ELSE IF b = "" THEN FALSE
  ELSE IF Head(a) /= Head(b) THEN CharRank(Head(a)) < CharRank(Head(b))
  ELSE TextLeq(Tail(a), Tail(b))

\* the members of rec that have a non-empty id
WithId(rec) == {i \in Members(rec) : TruthyText(events[i].id)}

\* ids lists each member that has an id once per member
ListsMemberIds(rec) ==
  /\ Len(rec.ids) = Cardinality(WithId(rec))
  /\ \A i \in WithId(rec) :
       Cardinality({k \in 1..Len(rec.ids) : rec.ids[k] = events[i].id})
         = Cardinality({j \in WithId(rec) : events[j].id = events[i].id})

\* exactly one output record per group of the input
OneRecordPerGroup ==
  \A i \in Inputs : Cardinality({k \in 1..Len(Out) : SameShow(Out[k], events[i])}) = 1

StartsBefore(i, j) ==
  LET si == events[i].start_datetime
      sj == events[j].start_datetime
  IN \/ si /= None /\ sj = None
     \/ si /= None /\ sj /= None /\ Val(si) < Val(sj)
     \/ si = sj /\ i < j

C4_MergedIffSameKey ==
  Done =>
    \A i, j \in Inputs :
      (\E rec \in Recs : i \in Members(rec) /\ j \in Members(rec))
        <=> SameShow(events[i], events[j])

\* C4 witness: two events with the same id whose raw artist and venue texts
\* differ are merged, and a third with the same id, artist and window but
\* another venue is not.
C4_Witness ==
  /\ Done
  /\ Len(events) = 3
  /\ Len(Out) = 2
  /\ events[1].primary_artist /= events[2].primary_artist
  /\ events[1].venue_name /= events[2].venue_name
  /\ \E rec \in Recs : Members(rec) = {1, 2}
  /\ Lower(Strip(ArtistOrName(events[3]))) = Lower(Strip(ArtistOrName(events[1])))
  /\ events[3].window = events[1].window
  /\ events[3].id = events[1].id

\* the priorities carried by the members of rec
MemberPriorities(rec) ==
  {Val(events[i].ai_priority) : i \in {j \in Members(rec) : events[j].ai_priority /= None}}

\* C5: a record of more than one member, one of which carries a priority,
\* has the largest priority of its members.
C5_PriorityIsMax ==
  Done =>
    \A rec \in Recs :
      (Len(rec.src) > 1 /\ MemberPriorities(rec) /= {}) =>
        /\ rec.ai_priority /= None
        /\ Val(rec.ai_priority) \in MemberPriorities(rec)
        /\ \A p \in MemberPriorities(rec) : p <= Val(rec.ai_priority)

\* C5 witness: the representative (first in the input, same start time)
\* carries priority 5 and a later member 8; the record has 8.
C5_Witness ==
  /\ Done
  /\ \E rec \in Recs :
       /\ Len(rec.src) > 1
       /\ events[rec.src[1]].ai_priority = Some(5)
       /\ rec.ai_priority = Some(8)

RankPriority(rec) == IF rec.ai_priority = None THEN 0 ELSE Val(rec.ai_priority)

\* C6: the output is in descending lexicographic order of (priority, 0 when
\* absent; score).
C6_SortedDescending ==
  Done =>
    \A k \in 1..(Len(Out) - 1) :
      \/ RankPriority(Out[k]) > RankPriority(Out[k + 1])
      \/ /\ RankPriority(Out[k]) = RankPriority(Out[k + 1])
         /\ Val(Out[k].score) >= Val(Out[k + 1].score)

\* C6 witness: scores 0.9, 0.3, 0.6 without priorities come out 0.9, 0.6, 0.3.
C6_Witness ==
  /\ Done
  /\ Len(events) = 3
  /\ \A i \in Inputs : events[i].ai_priority = None
  /\ <<events[1].score, events[2].score, events[3].score>> = <<Some(900), Some(300), Some(600)>>
  /\ Len(Out) = 3
  /\ <<Out[1].score, Out[2].score, Out[3].score>> = <<Some(900), Some(600), Some(300)>>

\* the members of rec that have a start time
Timed(rec) == {i \in Members(rec) : events[i].start_datetime /= None}

\* the member the claim names: the first, in input order, of those with the
\* earliest start time
Earliest(rec) ==
  CHOOSE i \in Timed(rec) :
    \A j \in Timed(rec) :
      \/ Val(events[i].start_datetime) < Val(events[j].start_datetime)
      \/ Val(events[i].start_datetime) = Val(events[j].start_datetime) /\ i <= j

\* C7: in a group of more than one member of which one has a start time, the
\* representative is the member with the earliest start time, never one
\* without a start time.  (Start times are below datetime.max.)
C7_RepresentativeIsEarliest ==
  Done =>
    \A rec \in Recs :
      (Len(rec.src) > 1 /\ Timed(rec) /= {}) =>
        /\ rec.start_datetime /= None
        /\ rec.start_datetime = events[Earliest(rec)].start_datetime
        /\ rec.id = events[Earliest(rec)].id

\* C7 witness: the first member in the input has no start time, a later one
\* has, and the later one is the representative.
C7_Witness ==
  /\ Done
  /\ \E rec \in Recs :
       /\ Len(rec.src) > 1
       /\ events[1].start_datetime = None
       /\ 1 \in Members(rec)
       /\ rec.start_datetime /= None
       /\ rec.id /= events[1].id

\* C8: every output record has a non-empty ids list and is built from events
\* that share its grouping key.
C8_IdsNonEmpty ==
  Done =>
    \A rec \in Recs :
      /\ rec.ids /= <<>>
      /\ \A i \in Members(rec) : SameShow(events[i], rec)

MemberStarts(rec) == {Val(events[i].start_datetime) : i \in Timed(rec)}

\* C9: date_start is the least and date_end the greatest start time of the
\* record's members that have one, so date_start <= date_end; both are None
\* when no member has one.
C9_DateRange ==
  Done =>
    \A rec \in Recs :
      IF MemberStarts(rec) = {}
        THEN rec.date_start = None /\ rec.date_end = None
        ELSE /\ rec.date_start /= None /\ rec.date_end /= None
             /\ Val(rec.date_start) \in MemberStarts(rec)
             /\ Val(rec.date_end) \in MemberStarts(rec)
             /\ \A s \in MemberStarts(rec) : Val(rec.date_start) <= s /\ s <= Val(rec.date_end)
             /\ Val(rec.date_start) <= Val(rec.date_end)

\* C9 witness: a run of three whose members start at 2, not at all, and at 1,
\* in that input order: the range is 1 to 2.
C9_Witness ==
  /\ Done
  /\ Len(events) = 3
  /\ <<events[1].start_datetime, events[2].start_datetime, events[3].start_datetime>>
       = <<Some(2), None, Some(1)>>
  /\ \E rec \in Recs :
       Members(rec) = {1, 2, 3} /\ rec.date_start = Some(1) /\ rec.date_end = Some(2)

\* C10: night_count is the number of input events of the record's group (at
\* least 1, and 1 for a group of one), and multi_night says night_count > 1.
C10_NightCount ==
  Done =>
    \A rec \in Recs :
      /\ rec.night_count = Cardinality({i \in Inputs : SameShow(events[i], rec)})
      /\ rec.night_count >= 1
      /\ rec.multi_night <=> (rec.night_count > 1)

\* C10 witness: one batch yields a single night and a run of two.
C10_Witness ==
  /\ Done
  /\ \E a, b \in Recs :
       /\ a.night_count = 1 /\ ~a.multi_night
       /\ b.night_count = 2 /\ b.multi_night

---------------------------------------------------------------------------
(* Claims about two events scored at one instant                           *)

BothScored == r1 /= None /\ r2 /= None /\ ~Val(r1).raised /\ ~Val(r2).raised

\* C11: an event that started before now scores strictly lower than the
\* same event (same venue, same classifications) starting after now,
\* whatever the venue and the classifications: the clamp never erases the
\* past penalty.
C11_PastScoresLower ==
  (BothScored /\ ev.start_datetime.t < clock /\ Val(ev2).start_datetime.t > clock)
    => Val(r1).score < Val(r2).score

\* C11 witness: both scored, the first began less than a day ago, the
\* second starts within the week, at the best venue and genre of the inputs.
C11_Witness ==
  /\ BothScored
  /\ ev.start_datetime.t = clock - 1
  /\ Val(ev2).start_datetime.t > clock
  /\ Val(r1).components.venue_weight = 93
  /\ Val(r1).components.genre_fit = 100
  /\ Val(r2).components.date_bonus = 100

Cleared(e) ==
  [e EXCEPT !.venue_name = None, !.embedded = None, !.classifications = None]

TableVenue(e) ==
  /\ e.venue_name /= None
  /\ \E i \in 1..Len(VENUE_TIERS) : VENUE_TIERS[i][1] = Val(e.venue_name)

GenreNames(e) ==
  IF e.classifications = None THEN {}
  ELSE {Val(Val(e.classifications)[i].genre) :
          i \in {j \in 1..Len(Val(e.classifications)) :
                   Val(e.classifications)[j].genre /= None}}

\* C12: an event at a venue of the curated table with a preferred genre
\* (rock, pop, indie, alternative, electronic, hip-hop) scores strictly
\* higher than the same event, same date, without its venue and
\* classification fields.
C12_KnownVenueAndGenreScoreHigher ==
  (/\ BothScored
   /\ TableVenue(ev)
   /\ GenreNames(ev) /= {} /\ GenreNames(ev) \subseteq PreferredGenres
   /\ Val(ev2) = Cleared(ev))
    => Val(r1).score > Val(r2).score

\* C12 witness: the lowest venue of the table (0.77) with the lowest
\* preferred genre (0.85) scored beside its cleared twin.
C12_Witness ==
  /\ BothScored
  /\ TableVenue(ev) /\ GenreNames(ev) = {"Electronic"}
  /\ Val(ev2) = Cleared(ev)
  /\ Val(r1).components.venue_weight = 77
  /\ Val(r1).components.genre_fit = 85
  /\ Val(r2).components.venue_weight = DEFAULT_VENUE_WEIGHT
  /\ Val(r2).components.genre_fit = 80

---------------------------------------------------------------------------
(* Claims about the scorer's failures and its genre and date components    *)

\* the date score_event looks at: start_datetime, or date when that is falsy
ActiveDate(e) == IF TruthyDate(e.start_datetime) THEN e.start_datetime ELSE e.date

WithoutDate(e) == [e EXCEPT !.start_datetime = NoDate, !.date = NoDate]

\* each optional field present or absent, the date absent, a datetime with
\* a timezone, or any string
OrdinaryEvent(e) ==
  /\ e.embedded = None \/ Val(Val(e.embedded).venues) /= <<>>
  /\ \A d \in {e.start_datetime, e.date} : d.k = "datetime" => d.aware

\* C13: score_event never raises on an event whose optional fields are
\* present or absent and whose date is absent, a datetime or any string,
\* with or without a timezone, parseable or not; and a date string that
\* does not parse scores as an absent date does.
C13_NeverRaises ==
  OrdinaryEvent(ev) =>
    \A r \in Results :
      /\ ~r.raised
      /\ (ActiveDate(ev).k = "str" /\ ~ActiveDate(ev).ok)
           => r.score = score_event(WithoutDate(ev), clock).score

---------------------------------------------------------------------------
(* Claims about _dedupe_events                                             *)

\* the collapsed records whose only member is the event at position i of
\* the list handed to _dedupe_events
AloneInGroup(i) ==
  {k \in 1..Len(Val(collapsed)) :
     /\ Len(Val(collapsed)[k].src) = 1
     /\ Val(deduped).kept[Val(collapsed)[k].src[1]] = i}

\* C14: an event whose id is empty or absent is never dropped by
\* _dedupe_events followed by _collapse_multi_night: it is in the output, in
\* a group whose only member is itself.
C14_EmptyIdRetained ==
  collapsed /= None =>
    \A i \in 1..Len(events) : ~TruthyText(events[i].id) => AloneInGroup(i) /= {}

\* the weights of the hints of GENRE_HINTS found in a classification text
MatchedWeights(e) ==
  LET texts == ClassTexts(IF e.classifications = None THEN <<>>
                          ELSE Val(e.classifications), 1)
  IN {GENRE_HINTS[j][2] :
        j \in {k \in 1..Len(GENRE_HINTS) :
                 \E i \in 1..Len(texts) : Contains(GENRE_HINTS[k][1], texts[i])}}

\* C15: when classification texts of the event match entries of the genre
\* table, genre_fit is exactly the largest weight among the matched entries
\* (0.3 at most for an event that matches comedy only).
C15_GenreFitIsMaxMatched ==
  \A r \in Results :
    (~r.raised /\ MatchedWeights(ev) /= {})
      => r.components.genre_fit = SetMax(MatchedWeights(ev))

\* whole days from now to the start of e, rounded down
DaysOut(e) == (e.start_datetime.t - clock) \div TicksPerDay

Bonus1 == Val(r1).components.date_bonus
Bonus2 == Val(r2).components.date_bonus

C16_WitnessWindows ==
  /\ BothScored
  /\ ev.window /= Val(ev2).window
  /\ DaysOut(ev) = DaysOut(Val(ev2)) /\ DaysOut(ev) \in 30..90
  /\ Bonus1 = Bonus2

---------------------------------------------------------------------------
(* Claims about the order of ties                                          *)

\* where the group of rec first appears in the input
FirstAppearance(rec) == SetMin(Members(rec))

\* C17: ties of the output order are stable: of two collapsed records with
\* equal (priority, score) the one whose group appears first in the input
\* list comes first.
C17_TiesInInputOrder ==
  Done =>
    \A j \in 1..Len(Out) : \A k \in 1..Len(Out) :
      (/\ j < k
       /\ RankPriority(Out[j]) = RankPriority(Out[k])
       /\ Out[j].score = Out[k].score)
        => FirstAppearance(Out[j]) < FirstAppearance(Out[k])

\* C17 witness: three groups, the first and the last of the input with equal
\* priority and score, a better one between them; the output has the better
\* one first and the two equal ones behind it in input order.
C17_Witness ==
  /\ Done
  /\ Len(events) = 3 /\ Len(Out) = 3
  /\ events[1].ai_priority = events[3].ai_priority
  /\ events[1].score = events[3].score
  /\ Val(events[2].score) > Val(events[1].score)
  /\ events[2].ai_priority = events[1].ai_priority
  /\ <<Out[1].src, Out[2].src, Out[3].src>> = <<(<<2>>), (<<1>>), (<<3>>)>>

---------------------------------------------------------------------------
(* Claims about the AI refinement                                          *)

\* the answer is malformed: no list of items, or an item that is no object
\* or has a missing or non-numeric priority
Malformed(a) ==
  \/ a.k /= "items"
  \/ \E i \in 1..Len(a.items) : ~a.items[i].obj \/ a.items[i].priority.k /= "num"

\* C18: refine_top_events_with_ai never raises; when the API key is
\* missing, the completion call fails or the response is malformed (not
\* JSON, items not a list, an item that is no object, a missing or
\* non-numeric priority) it returns the first top_k input events in input
\* order.
C18_NeverRaisesAndFallsBack ==
  refined /= None =>
    /\ ~Val(refined).raised
    /\ Malformed(Val(response)) => Val(refined).v = Take(events, TopK)

\* the non-empty ids of the input, and the input positions of an id
NonEmptyIds == {events[i].id : i \in {j \in 1..Len(events) : TruthyText(events[j].id)}}
PositionsOf(id) == {i \in 1..Len(events) : events[i].id = id}

\* the first, in input order, of the records of id with the highest score
BestOf(id) ==
  CHOOSE i \in PositionsOf(id) :
    \A j \in PositionsOf(id) :
      \/ Val(events[j].score) < Val(events[i].score)
      \/ (Val(events[j].score) = Val(events[i].score) /\ i <= j)

\* C19: _dedupe_events returns exactly one record for each distinct
\* non-empty id of its input and none else, and that record is the one of
\* the highest score among the input records of the id, the earliest in
\* input order when several have that score.
C19_OnePerIdWithMaxScore ==
  deduped /= None =>
    LET out == Val(deduped) IN
      /\ Len(out.v) = Cardinality(NonEmptyIds)
      /\ \A id \in NonEmptyIds :
           \E p \in 1..Len(out.v) :
             /\ out.v[p] = events[BestOf(id)]
             /\ out.kept[p] = BestOf(id)
             /\ \A q \in 1..Len(out.v) : out.v[q].id = id => q = p

\* C19 witness: three records of one id with scores 0.3, 0.9, 0.9, the last
\* two on different nights; the first of the two 0.9 records is returned.
C19_Witness ==
  /\ deduped /= None
  /\ Len(events) = 3
  /\ \A i \in 1..3 : events[i].id = Some("x")
  /\ <<events[1].score, events[2].score, events[3].score>> = <<Some(300), Some(900), Some(900)>>
  /\ events[2].start_datetime /= events[3].start_datetime
  /\ Val(deduped).kept = <<2>>
  /\ Val(deduped).v = <<events[2]>>

---------------------------------------------------------------------------
(* Claims about the paging                                                 *)

\* C20: _fetch_city_for_window returns at most max_events events, whatever
\* the pages of up to 100 events the API answers.
C20_AtMostMaxEvents ==
  fetch_pc = "returned" => all_events <= max_events

\* C21: the paging loop of _fetch_city_for_window terminates when every
\* request returns, whatever the pages answered (with or without
\* totalPages): it makes at most max_events page requests, as every turn
\* that is not the last adds at least one event.
C21_Terminates ==
  /\ [](requests <= max_events)
  /\ <>(fetch_pc /= "loop")

\* C21 witness: the longest run, max_events pages of one event each.
C21_Witness ==
  /\ fetch_pc = "returned"
  /\ requests = max_events
  /\ all_events = max_events

---------------------------------------------------------------------------
(* fetch_events.py: the tracking of new events across runs                 *)

\* str(ev.get("id", "")) of an id that is present in the dict
StrOf(id) == IF id = None THEN "None" ELSE Val(id)

\* sorted(ids): a text goes behind every one that is not larger
InsertText(sorted, t) ==
  LET before == {p \in 1..Len(sorted) : TextLeq(sorted[p], t)}
      n == IF before = {} THEN 0 ELSE SetMax(before)
  IN SubSeq(sorted, 1, n) \o <<t>> \o SubSeq(sorted, n + 1, Len(sorted))

RECURSIVE SortTexts(_, _, _)
SortTexts(texts, k, sorted) ==
  IF k > Len(texts) THEN sorted
  ELSE SortTexts(texts, k + 1, InsertText(sorted, texts[k]))

\* "|".join(texts)
RECURSIVE Join(_, _)
Join(texts, k) ==
  IF k > Len(texts) THEN ""
  ELSE IF k = Len(texts) THEN texts[k]
  ELSE texts[k] \o "|" \o Join(texts, k + 1)

\* a collapsed record, by the fields _event_key reads
Show(id, multi_night, ids) == [id |-> id, multi_night |-> multi_night, ids |-> ids]

\* lines 577-588
event_key(e) ==
  IF e.multi_night /\ e.ids /= <<>>
    THEN Join(SortTexts([k \in 1..Len(e.ids) |-> Val(e.ids[k])], 1, <<>>), 1)
    ELSE StrOf(e.id)

\* the longest final list of the near-term window
MaxShows == 2

\* single nights with an absent, an empty and two proper ids, and a
\* two-night run
ShowEvents ==
  {Show(None, FALSE, <<None>>), Show(Some(""), FALSE, <<Some("")>>),
   Show(Some("x"), FALSE, <<Some("x")>>), Show(Some("y"), FALSE, <<Some("y")>>),
   Show(Some("y"), TRUE, <<Some("y"), Some("x")>>)}

\* the far-out list is empty or holds the single night x
FarLists == {<<>>, <<Show(Some("x"), FALSE, <<Some("x")>>)>>}

FinalLists ==
  {[w \in Windows |-> IF w = "short_term" THEN near ELSE far] :
     near \in UNION {[1..n -> ShowEvents] : n \in 0..MaxShows},
     far \in FarLists}

\* _event_key on the events of the lists, computed once
KeyOf == [e \in ShowEvents |-> event_key(e)]

\* line 851
current_keys(evs) == {KeyOf[evs[i]] : i \in 1..Len(evs)} \ {""}

\* a slip of RemoveOld: the cleanup of departed keys left out
RemoveOldOmitted(known, current) == known

\* lines 854-858: the known keys that are still current
RemoveOld(known, current) == known \cap current

\* lines 861-868: [new |-> new_events, known |-> the window's known keys]
RECURSIVE NewEvents(_, _, _, _)
NewEvents(evs, i, known, new) ==
  IF i > Len(evs) THEN [new |-> new, known |-> known]
  ELSE LET key == KeyOf[evs[i]]
       IN IF key /= "" /\ key \notin known
            THEN NewEvents(evs, i + 1, known \cup {key}, Append(new, evs[i]))
            ELSE NewEvents(evs, i + 1, known, new)

\* lines 849-872, one window
TrackWindow(known, evs) ==
  NewEvents(evs, 1, RemoveOld(known, current_keys(evs)), <<>>)

\* lines 538-562 and 840-843: no state file reads as no known key
LoadKnown == IF known_events = None THEN [w \in Windows |-> {}] ELSE Val(known_events)

InitTrack ==
  /\ IdleScore /\ IdleLists /\ IdleAI /\ IdleFetch /\ IdleSheet
  /\ known_events = None
  /\ final_by_window = None
  /\ new_by_window = None
  /\ prev_known = None

\* lines 840-875: one run's tracking step on the final lists of the run
TrackRun(lists) ==
  LET known == LoadKnown
      result == [w \in Windows |-> TrackWindow(known[w], lists[w])]
  IN /\ final_by_window' = Some(lists)
     /\ prev_known' = Some(known)
     /\ new_by_window' = Some([w \in Windows |-> result[w].new])
     /\ known_events' = Some([w \in Windows |-> result[w].known])
     /\ UNCHANGED <<scoreVars, listVars, aiVars, fetchVars, sheetVars>>

NextTrack == \E lists \in FinalLists : TrackRun(lists)

SpecTrack == InitTrack /\ [][NextTrack]_vars

---------------------------------------------------------------------------
(* Claims about the tracking                                               *)

Tracked == final_by_window /= None

\* the non-empty keys of the window's final list
ShowKeys(w) ==
  {event_key(Val(final_by_window)[w][i]) : i \in 1..Len(Val(final_by_window)[w])} \ {""}

\* the keys of the events reported as new
ReportedKeys(w) ==
  {event_key(Val(new_by_window)[w][i]) : i \in 1..Len(Val(new_by_window)[w])}

---------------------------------------------------------------------------
(* Claims about the partition made by _collapse_multi_night                *)

\* the distinct grouping keys of the input, each by the first event that
\* has it
FirstOfShow == {i \in Inputs : \A j \in 1..(i - 1) : ~SameShow(events[i], events[j])}

RECURSIVE SumNightCounts(_)
SumNightCounts(k) ==
  IF k > Len(Out) THEN 0 ELSE Out[k].night_count + SumNightCounts(k + 1)

\* C23: _collapse_multi_night partitions its input: every input event
\* belongs to exactly one output record, there are as many output records as
\* distinct grouping keys in the input, and the night counts of the output
\* add up to the number of input events (the inputs carry no night_count of
\* their own).
C23_Partition ==
  Done =>
    /\ \A i \in Inputs :
         Cardinality({k \in 1..Len(Out) : i \in Members(Out[k])}) = 1
    /\ \A k \in 1..Len(Out) :
         Members(Out[k]) \subseteq Inputs /\ Cardinality(Members(Out[k])) = Len(Out[k].src)
    /\ Len(Out) = Cardinality(FirstOfShow)
    /\ SumNightCounts(1) = Len(events)

\* C23 witness: the first and the last of three events are one show and the
\* middle one another; two records, of two nights and of one.
C23_Witness ==
  /\ Done
  /\ Len(events) = 3
  /\ SameShow(events[1], events[3]) /\ ~SameShow(events[1], events[2])
  /\ Len(Out) = 2
  /\ {Out[1].src, Out[2].src} = {(<<1, 3>>), (<<2>>)}
  /\ {Out[1].night_count, Out[2].night_count} = {1, 2}

---------------------------------------------------------------------------
(* sheets_client.py: upsert_events                                         *)

\* A row of the worksheet, by the cells that matter: the two cells of the
\* key and score_total for the others.  The worksheet is the sequence
\* of its rows; row 1 is the header row once there is one.
Row(source_event_id, window, score_total) ==
  [source_event_id |-> source_event_id, window |-> window, score_total |-> score_total]

\* lines 26-32
header == Row("source_event_id", "window", "score_total")

\* line 21, sheet.get_all_records(): the rows below the first
get_all_records(sh) == IF Len(sh) <= 1 THEN <<>> ELSE Tail(sh)

KeyOfRow(r) == <<r.source_event_id, r.window>>

\* line 22: the keys of existing_index, and the row number it holds for a
\* key (the last row of the key, i + 2 for the 0-based i)
IndexedKeys(rows) == {KeyOfRow(rows[i]) : i \in 1..Len(rows)}
existing_index(rows, key) == SetMax({i \in 1..Len(rows) : KeyOfRow(rows[i]) = key}) + 1

\* lines 36-67: the loop over the events; existing_index is built before
\* the loop from rows and never changed by it
RECURSIVE UpsertFrom(_, _, _, _)
UpsertFrom(sh, rows, evs, k) ==
  IF k > Len(evs) THEN sh
  ELSE LET key == KeyOfRow(evs[k])
       IN IF key \in IndexedKeys(rows)
            THEN UpsertFrom([sh EXCEPT ![existing_index(rows, key)] = evs[k]], rows, evs, k + 1)
            ELSE UpsertFrom(Append(sh, evs[k]), rows, evs, k + 1)

\* lines 19-67
upsert_events(sh, evs) ==
  LET rows == get_all_records(sh)
      with_header == IF rows = <<>> THEN <<header>> \o sh ELSE sh
  IN UpsertFrom(with_header, rows, evs, 1)

\* the longest batch, and the rows above which no further call is made
MaxBatch == 2
MaxRows == 4

SheetEvents ==
  {Row(id, w, s) : id \in {"a", "b"}, w \in Windows, s \in {"0.5", "0.9"}}

\* a new worksheet is empty
InitSheet ==
  /\ IdleScore /\ IdleLists /\ IdleAI /\ IdleFetch /\ IdleTrack
  /\ sheet = <<>>
  /\ batch = <<>>

UpsertCall(evs) ==
  /\ Len(sheet) <= MaxRows
  /\ batch' = evs
  /\ sheet' = upsert_events(sheet, evs)
  /\ UNCHANGED <<scoreVars, listVars, aiVars, fetchVars, trackVars>>

NextSheet == \E evs \in UNION {[1..n -> SheetEvents] : n \in 0..MaxBatch} : UpsertCall(evs)

SpecSheet == InitSheet /\ [][NextSheet]_vars

---------------------------------------------------------------------------
(* Claims about the worksheet                                              *)

\* every (source_event_id, window) pair is in at most one row below the header
OneRowPerPair(sh) ==
  \A i \in 2..Len(sh) : \A j \in 2..Len(sh) : KeyOfRow(sh[i]) = KeyOfRow(sh[j]) => i = j

\* C24: from a sheet in which every (source_event_id, window) pair has at
\* most one row, upsert_events on any batch, one that holds a pair more than
\* once included, leaves every pair with at most one row.
C24_OneRowPerPair ==
  [][OneRowPerPair(sheet) => OneRowPerPair(sheet')]_vars

=============================================================================
